---- MODULE Spec2Model ----
(***************************************************************************)
(* Parcel tracking for Delivery Notes (UPS, FedEx, Priority): the poll of  *)
(* one delivery note (client construction, lookup-mode decision, tracking  *)
(* request, response handler) and the record it saves.                     *)
(*                                                                         *)
(* Python values: None is the string "None"; an optional date or datetime  *)
(* is <<>> (None) or <<d>>; a value whose Python type matters (str or int) *)
(* is a record [t, i, s].                                                  *)
(***************************************************************************)
EXTENDS Integers, Sequences, FiniteSets, TLC

VARIABLES dn, settings, cache, clock, last, client

vars == <<dn, settings, cache, clock, last, client>>

\* ---- bounds of the model ----
MaxDay == 1
MaxPackages == 2

None == "None"
NoDate == <<>>

\* no client is under construction (the polls construct theirs in one step)
NoClients == <<>>

\* ---- static code lists of the seeding functions (code, jammy_description) ----
code_details ==
  << [status_code |-> "0", jammy_description |-> "Not Found"], [status_code |-> "3", jammy_description |-> "Processing"], [status_code |-> "5", jammy_description |-> "In Transit"],
     [status_code |-> "6", jammy_description |-> "In Transit"], [status_code |-> "7", jammy_description |-> "Cancelled"], [status_code |-> "10", jammy_description |-> "In Transit"],
     [status_code |-> "11", jammy_description |-> "Delivered"], [status_code |-> "12", jammy_description |-> "In Transit"], [status_code |-> "13", jammy_description |-> "Exception"],
     [status_code |-> "14", jammy_description |-> "In Transit"], [status_code |-> "16", jammy_description |-> "In Transit"], [status_code |-> "17", jammy_description |-> "In Transit"],
     [status_code |-> "18", jammy_description |-> "In Transit"], [status_code |-> "19", jammy_description |-> "In Transit"], [status_code |-> "20", jammy_description |-> "In Transit"],
     [status_code |-> "21", jammy_description |-> "In Transit"], [status_code |-> "22", jammy_description |-> "In Transit"], [status_code |-> "23", jammy_description |-> "In Transit"],
     [status_code |-> "24", jammy_description |-> "In Transit"], [status_code |-> "25", jammy_description |-> "In Transit"], [status_code |-> "26", jammy_description |-> "In Transit"],
     [status_code |-> "27", jammy_description |-> "In Transit"], [status_code |-> "28", jammy_description |-> "In Transit"], [status_code |-> "29", jammy_description |-> "Exception"],
     [status_code |-> "30", jammy_description |-> "Exception"], [status_code |-> "32", jammy_description |-> "In Transit"], [status_code |-> "33", jammy_description |-> "Exception"],
     [status_code |-> "34", jammy_description |-> "Exception"], [status_code |-> "35", jammy_description |-> "Exception"], [status_code |-> "36", jammy_description |-> "Exception"],
     [status_code |-> "37", jammy_description |-> "In Transit"], [status_code |-> "38", jammy_description |-> "In Transit"], [status_code |-> "39", jammy_description |-> "In Transit"],
     [status_code |-> "40", jammy_description |-> "Processing"], [status_code |-> "41", jammy_description |-> "In Transit"], [status_code |-> "42", jammy_description |-> "In Transit"],
     [status_code |-> "43", jammy_description |-> "Cancelled"], [status_code |-> "44", jammy_description |-> "In Transit"], [status_code |-> "45", jammy_description |-> "In Transit"],
     [status_code |-> "46", jammy_description |-> "In Transit"], [status_code |-> "47", jammy_description |-> "In Transit"], [status_code |-> "48", jammy_description |-> "In Transit"],
     [status_code |-> "49", jammy_description |-> "Exception"], [status_code |-> "50", jammy_description |-> "Exception"], [status_code |-> "51", jammy_description |-> "In Transit"],
     [status_code |-> "52", jammy_description |-> "In Transit"], [status_code |-> "53", jammy_description |-> "In Transit"], [status_code |-> "54", jammy_description |-> "In Transit"],
     [status_code |-> "55", jammy_description |-> "In Transit"], [status_code |-> "56", jammy_description |-> "In Transit"], [status_code |-> "57", jammy_description |-> "In Transit"],
     [status_code |-> "58", jammy_description |-> "Exception"], [status_code |-> "59", jammy_description |-> "Exception"], [status_code |-> "60", jammy_description |-> "In Transit"],
     [status_code |-> "61", jammy_description |-> "In Transit"], [status_code |-> "62", jammy_description |-> "In Transit"], [status_code |-> "63", jammy_description |-> "In Transit"],
     [status_code |-> "64", jammy_description |-> "Exception"], [status_code |-> "65", jammy_description |-> "Processing"], [status_code |-> "66", jammy_description |-> "In Transit"],
     [status_code |-> "67", jammy_description |-> "Exception"], [status_code |-> "68", jammy_description |-> "Exception"], [status_code |-> "69", jammy_description |-> "Exception"],
     [status_code |-> "70", jammy_description |-> "In Transit"], [status_code |-> "71", jammy_description |-> "In Transit"], [status_code |-> "72", jammy_description |-> "In Transit"],
     [status_code |-> "73", jammy_description |-> "In Transit"], [status_code |-> "74", jammy_description |-> "In Transit"], [status_code |-> "75", jammy_description |-> "In Transit"],
     [status_code |-> "76", jammy_description |-> "Exception"], [status_code |-> "77", jammy_description |-> "In Transit"], [status_code |-> "78", jammy_description |-> "In Transit"],
     [status_code |-> "79", jammy_description |-> "In Transit"], [status_code |-> "80", jammy_description |-> "In Transit"], [status_code |-> "81", jammy_description |-> "Exception"],
     [status_code |-> "82", jammy_description |-> "In Transit"], [status_code |-> "83", jammy_description |-> "In Transit"], [status_code |-> "84", jammy_description |-> "In Transit"],
     [status_code |-> "85", jammy_description |-> "In Transit"], [status_code |-> "86", jammy_description |-> "In Transit"], [status_code |-> "87", jammy_description |-> "In Transit"],
     [status_code |-> "88", jammy_description |-> "Processing"], [status_code |-> "89", jammy_description |-> "In Transit"], [status_code |-> "90", jammy_description |-> "In Transit"],
     [status_code |-> "91", jammy_description |-> "In Transit"], [status_code |-> "92", jammy_description |-> "In Transit"], [status_code |-> "93", jammy_description |-> "In Transit"],
     [status_code |-> "94", jammy_description |-> "In Transit"], [status_code |-> "95", jammy_description |-> "In Transit"], [status_code |-> "96", jammy_description |-> "In Transit"],
     [status_code |-> "97", jammy_description |-> "In Transit"], [status_code |-> "98", jammy_description |-> "In Transit"], [status_code |-> "99", jammy_description |-> "In Transit"],
     [status_code |-> "100", jammy_description |-> "In Transit"], [status_code |-> "101", jammy_description |-> "In Transit"], [status_code |-> "102", jammy_description |-> "In Transit"],
     [status_code |-> "103", jammy_description |-> "In Transit"], [status_code |-> "104", jammy_description |-> "In Transit"], [status_code |-> "105", jammy_description |-> "In Transit"],
     [status_code |-> "106", jammy_description |-> "In Transit"], [status_code |-> "107", jammy_description |-> "In Transit"], [status_code |-> "108", jammy_description |-> "In Transit"],
     [status_code |-> "109", jammy_description |-> "In Transit"], [status_code |-> "110", jammy_description |-> "In Transit"], [status_code |-> "111", jammy_description |-> "In Transit"],
     [status_code |-> "112", jammy_description |-> "In Transit"], [status_code |-> "113", jammy_description |-> "In Transit"], [status_code |-> "114", jammy_description |-> "Cancelled"],
     [status_code |-> "115", jammy_description |-> "In Transit"], [status_code |-> "116", jammy_description |-> "In Transit"], [status_code |-> "117", jammy_description |-> "In Transit"],
     [status_code |-> "118", jammy_description |-> "In Transit"], [status_code |-> "119", jammy_description |-> "In Transit"], [status_code |-> "120", jammy_description |-> "In Transit"],
     [status_code |-> "121", jammy_description |-> "In Transit"], [status_code |-> "122", jammy_description |-> "In Transit"], [status_code |-> "123", jammy_description |-> "In Transit"],
     [status_code |-> "124", jammy_description |-> "Exception"], [status_code |-> "125", jammy_description |-> "Exception"], [status_code |-> "126", jammy_description |-> "In Transit"],
     [status_code |-> "127", jammy_description |-> "Processed"], [status_code |-> "128", jammy_description |-> "Processed"], [status_code |-> "129", jammy_description |-> "In Transit"],
     [status_code |-> "130", jammy_description |-> "Processed"], [status_code |-> "131", jammy_description |-> "In Transit"], [status_code |-> "132", jammy_description |-> "In Transit"],
     [status_code |-> "133", jammy_description |-> "Processing"], [status_code |-> "134", jammy_description |-> "In Transit"], [status_code |-> "135", jammy_description |-> "In Transit"],
     [status_code |-> "136", jammy_description |-> "In Transit"], [status_code |-> "137", jammy_description |-> "In Transit"], [status_code |-> "138", jammy_description |-> "In Transit"],
     [status_code |-> "139", jammy_description |-> "Exception"], [status_code |-> "140", jammy_description |-> "Processed"], [status_code |-> "141", jammy_description |-> "Exception"],
     [status_code |-> "142", jammy_description |-> "Processed"], [status_code |-> "143", jammy_description |-> "In Transit"], [status_code |-> "144", jammy_description |-> "Delivered"],
     [status_code |-> "145", jammy_description |-> "In Transit"], [status_code |-> "146", jammy_description |-> "In Transit"], [status_code |-> "147", jammy_description |-> "Cancelled"],
     [status_code |-> "148", jammy_description |-> "Exception"], [status_code |-> "149", jammy_description |-> "Exception"], [status_code |-> "153", jammy_description |-> "In Transit"],
     [status_code |-> "154", jammy_description |-> "In Transit"], [status_code |-> "155", jammy_description |-> "Delivered"], [status_code |-> "156", jammy_description |-> "Delivered"],
     [status_code |-> "157", jammy_description |-> "Processing"], [status_code |-> "158", jammy_description |-> "In Transit"], [status_code |-> "159", jammy_description |-> "In Transit"],
     [status_code |-> "160", jammy_description |-> "In Transit"], [status_code |-> "161", jammy_description |-> "In Transit"], [status_code |-> "162", jammy_description |-> "In Transit"],
     [status_code |-> "163", jammy_description |-> "Exception"], [status_code |-> "164", jammy_description |-> "In Transit"], [status_code |-> "165", jammy_description |-> "In Transit"],
     [status_code |-> "166", jammy_description |-> "In Transit"], [status_code |-> "167", jammy_description |-> "In Transit"], [status_code |-> "168", jammy_description |-> "In Transit"],
     [status_code |-> "169", jammy_description |-> "In Transit"] >>

fedex_success_codes ==
  << [fedex_status_code |-> "AA", jammy_description |-> "In Transit"], [fedex_status_code |-> "AC", jammy_description |-> "In Transit"], [fedex_status_code |-> "AD", jammy_description |-> "In Transit"],
     [fedex_status_code |-> "AF", jammy_description |-> "In Transit"], [fedex_status_code |-> "AO", jammy_description |-> "In Transit"], [fedex_status_code |-> "AP", jammy_description |-> "In Transit"],
     [fedex_status_code |-> "AR", jammy_description |-> "In Transit"], [fedex_status_code |-> "AX", jammy_description |-> "In Transit"], [fedex_status_code |-> "CA", jammy_description |-> "Cancelled"],
     [fedex_status_code |-> "CH", jammy_description |-> "In Transit"], [fedex_status_code |-> "DD", jammy_description |-> "In Transit, Delayed"], [fedex_status_code |-> "DE", jammy_description |-> "Exception"],
     [fedex_status_code |-> "DL", jammy_description |-> "Delivered"], [fedex_status_code |-> "DP", jammy_description |-> "In Transit"], [fedex_status_code |-> "DR", jammy_description |-> "In Transit"],
     [fedex_status_code |-> "DS", jammy_description |-> "In Transit"], [fedex_status_code |-> "DY", jammy_description |-> "In Transit, Delayed"], [fedex_status_code |-> "EA", jammy_description |-> "In Transit"],
     [fedex_status_code |-> "ED", jammy_description |-> "In Transit"], [fedex_status_code |-> "EO", jammy_description |-> "In Transit"], [fedex_status_code |-> "EP", jammy_description |-> "In Transit"],
     [fedex_status_code |-> "FD", jammy_description |-> "In Transit"], [fedex_status_code |-> "HL", jammy_description |-> "In Transit"], [fedex_status_code |-> "HP", jammy_description |-> "In Transit"],
     [fedex_status_code |-> "IT", jammy_description |-> "In Transit"], [fedex_status_code |-> "IX", jammy_description |-> "In Transit"], [fedex_status_code |-> "LO", jammy_description |-> "In Transit"],
     [fedex_status_code |-> "OC", jammy_description |-> "Processing"], [fedex_status_code |-> "OD", jammy_description |-> "In Transit"], [fedex_status_code |-> "OF", jammy_description |-> "In Transit"],
     [fedex_status_code |-> "OX", jammy_description |-> "Processing"], [fedex_status_code |-> "PD", jammy_description |-> "Processing"], [fedex_status_code |-> "PF", jammy_description |-> "In Transit"],
     [fedex_status_code |-> "PL", jammy_description |-> "In Transit"], [fedex_status_code |-> "PM", jammy_description |-> "In Transit"], [fedex_status_code |-> "PU", jammy_description |-> "In Transit"],
     [fedex_status_code |-> "PX", jammy_description |-> "In Transit"], [fedex_status_code |-> "RR", jammy_description |-> "In Transit"], [fedex_status_code |-> "RM", jammy_description |-> "In Transit"],
     [fedex_status_code |-> "RC", jammy_description |-> "In Transit"], [fedex_status_code |-> "RS", jammy_description |-> "Exception"], [fedex_status_code |-> "RP", jammy_description |-> "Processing"],
     [fedex_status_code |-> "LP", jammy_description |-> "Cancelled"], [fedex_status_code |-> "RG", jammy_description |-> "Processing"], [fedex_status_code |-> "RD", jammy_description |-> "Cancelled"],
     [fedex_status_code |-> "SE", jammy_description |-> "Exception"], [fedex_status_code |-> "SF", jammy_description |-> "In Transit"], [fedex_status_code |-> "SP", jammy_description |-> "Split In Transit"],
     [fedex_status_code |-> "TR", jammy_description |-> "In Transit"], [fedex_status_code |-> "CC", jammy_description |-> "In Transit"], [fedex_status_code |-> "CD", jammy_description |-> "In Transit, Delayed"],
     [fedex_status_code |-> "CP", jammy_description |-> "In Transit"], [fedex_status_code |-> "EA", jammy_description |-> "In Transit"], [fedex_status_code |-> "SP", jammy_description |-> "Split In Tranist"],
     [fedex_status_code |-> "CA", jammy_description |-> "Carrier"], [fedex_status_code |-> "RC", jammy_description |-> "Recipient"], [fedex_status_code |-> "SH", jammy_description |-> "Shipper"],
     [fedex_status_code |-> "CU", jammy_description |-> "Customs"], [fedex_status_code |-> "BR", jammy_description |-> "Broker"], [fedex_status_code |-> "TP", jammy_description |-> "Transfer Partner"],
     [fedex_status_code |-> "SP", jammy_description |-> "Split In Transit"] >>

fedex_error_codes ==
  << [fedex_error_code |-> "CUSTOMER.REVOKE.REQUIRED", jammy_description |-> "Exception"], [fedex_error_code |-> "CUSTOMER.SIZE.INVALID", jammy_description |-> "Exception"],
     [fedex_error_code |-> "CUSTOMER.USAGE.LOCKED", jammy_description |-> "Exception"], [fedex_error_code |-> "REFERENCETRACKING.SHIPDATERANGE.INVALID", jammy_description |-> "Exception"],
     [fedex_error_code |-> "TRACKING.ACCOUNTNUMBER.EMPTY", jammy_description |-> "Exception"], [fedex_error_code |-> "TRACKING.CUSTOMCRITICAL.ERROR", jammy_description |-> "Service Error, See fedex.com"],
     [fedex_error_code |-> "TRACKING.DATA.NOTUNIQUE", jammy_description |-> "Exception"], [fedex_error_code |-> "TRACKING.DESTINATIONCOUNTRYCODE.INVALID", jammy_description |-> "Exception"],
     [fedex_error_code |-> "TRACKING.MULTISTOP.ERROR", jammy_description |-> "Service Error, See fedex.com"], [fedex_error_code |-> "TRACKING.POSTALCODE.INVALID", jammy_description |-> "Exception"],
     [fedex_error_code |-> "TRACKING.REFERENCEDATA.INCOMPLETE", jammy_description |-> "Exception"], [fedex_error_code |-> "TRACKING.REFERENCENUMBER.NOTFOUND", jammy_description |-> "Exception"],
     [fedex_error_code |-> "TRACKING.REFERENCETYPE.INVALID", jammy_description |-> "Exception"], [fedex_error_code |-> "TRACKING.REFERENCEVALUE.EMPTY", jammy_description |-> "Exception"],
     [fedex_error_code |-> "TRACKING.REFRENCEVALUE.INVALID", jammy_description |-> "Exception"], [fedex_error_code |-> "TRACKING.SHIPDATE.ENDDATEBEFOREBEGINDATE", jammy_description |-> "Exception"],
     [fedex_error_code |-> "TRACKING.SHIPDATEBEGIN.INVALID", jammy_description |-> "Exception"], [fedex_error_code |-> "TRACKING.SHIPDATEBEGIN.TOOOLD", jammy_description |-> "Exception"],
     [fedex_error_code |-> "TRACKING.SHIPDATEEND.FUTURE", jammy_description |-> "Exception"], [fedex_error_code |-> "TRACKING.SHIPDATEEND.INVALID", jammy_description |-> "Exception"],
     [fedex_error_code |-> "TRACKING.SHIPDATERANGE.ERROR", jammy_description |-> "Exception"], [fedex_error_code |-> "TRACKING.SHIPDATERANGE.INVALID", jammy_description |-> "Exception"],
     [fedex_error_code |-> "TRACKING.SHIPDATERANGE.TOOLONG", jammy_description |-> "Exception"], [fedex_error_code |-> "TRACKING.TCN.NOTFOUND", jammy_description |-> "Exception"],
     [fedex_error_code |-> "TRACKING.TCNVALUE.EMPTY", jammy_description |-> "Exception"], [fedex_error_code |-> "TRACKING.TRACKINGNUMBER.EMPTY", jammy_description |-> "Exception"],
     [fedex_error_code |-> "TRACKING.TRACKINGNUMBER.INVALID", jammy_description |-> "Exception"], [fedex_error_code |-> "TRACKING.TRACKINGNUMBER.NOTFOUND", jammy_description |-> "Exception"],
     [fedex_error_code |-> "TRACKING.TRACKINGNUMBERS.LIMITEXCEEDED", jammy_description |-> "Exception"], [fedex_error_code |-> "USER.RELOGIN.REQUIRED", jammy_description |-> "Service Error, See fedex.com"],
     [fedex_error_code |-> "INTERNAL.SERVER.ERROR", jammy_description |-> "Service Error, See fedex.com"], [fedex_error_code |-> "TRACKING.MULTIPIECE.ERROR", jammy_description |-> "Exception"],
     [fedex_error_code |-> "NOTIFICATION.TRACKINGNBR.NOTFOUND", jammy_description |-> "Exception"], [fedex_error_code |-> "TRACKING.EMAILADDRESS.INVALID", jammy_description |-> "Exception"],
     [fedex_error_code |-> "TRACKING.LOCALE.INVALID", jammy_description |-> "Exception"], [fedex_error_code |-> "TRACKING.SENDERCONTACTNAME.INVALID", jammy_description |-> "Exception"],
     [fedex_error_code |-> "TRACKING.SENDEREMAILADDRESS.INVALID", jammy_description |-> "Exception"], [fedex_error_code |-> "TRACKINGDOCUMENT.DOCUMENT.UNAVAILABLE", jammy_description |-> "Exception"] >>

priority_success_codes ==
  << [response_code |-> "200", priority_status_description |-> "Dispatched", jammy_description |-> "Processing"],
     [response_code |-> "200", priority_status_description |-> "In Transit", jammy_description |-> "In Transit"],
     [response_code |-> "200", priority_status_description |-> "Delivered", jammy_description |-> "Delivered"],
     [response_code |-> "200", priority_status_description |-> "Canceled", jammy_description |-> "Canceled"],
     [response_code |-> "200", priority_status_description |-> "Exception", jammy_description |-> "Exception"] >>

priority_error_codes ==
  << [response_code |-> "400", jammy_description |-> "Exception"],
     [response_code |-> "401", jammy_description |-> "Exception"],
     [response_code |-> "500", jammy_description |-> "DN Not Found"] >>

DecimalValue ==
  ("0" :> 0) @@ ("3" :> 3) @@ ("5" :> 5) @@ ("6" :> 6) @@ ("7" :> 7) @@ ("10" :> 10) @@ ("11" :> 11) @@ ("12" :> 12) @@
  ("13" :> 13) @@ ("14" :> 14) @@ ("16" :> 16) @@ ("17" :> 17) @@ ("18" :> 18) @@ ("19" :> 19) @@ ("20" :> 20) @@ ("21" :> 21) @@
  ("22" :> 22) @@ ("23" :> 23) @@ ("24" :> 24) @@ ("25" :> 25) @@ ("26" :> 26) @@ ("27" :> 27) @@ ("28" :> 28) @@ ("29" :> 29) @@
  ("30" :> 30) @@ ("32" :> 32) @@ ("33" :> 33) @@ ("34" :> 34) @@ ("35" :> 35) @@ ("36" :> 36) @@ ("37" :> 37) @@ ("38" :> 38) @@
  ("39" :> 39) @@ ("40" :> 40) @@ ("41" :> 41) @@ ("42" :> 42) @@ ("43" :> 43) @@ ("44" :> 44) @@ ("45" :> 45) @@ ("46" :> 46) @@
  ("47" :> 47) @@ ("48" :> 48) @@ ("49" :> 49) @@ ("50" :> 50) @@ ("51" :> 51) @@ ("52" :> 52) @@ ("53" :> 53) @@ ("54" :> 54) @@
  ("55" :> 55) @@ ("56" :> 56) @@ ("57" :> 57) @@ ("58" :> 58) @@ ("59" :> 59) @@ ("60" :> 60) @@ ("61" :> 61) @@ ("62" :> 62) @@
  ("63" :> 63) @@ ("64" :> 64) @@ ("65" :> 65) @@ ("66" :> 66) @@ ("67" :> 67) @@ ("68" :> 68) @@ ("69" :> 69) @@ ("70" :> 70) @@
  ("71" :> 71) @@ ("72" :> 72) @@ ("73" :> 73) @@ ("74" :> 74) @@ ("75" :> 75) @@ ("76" :> 76) @@ ("77" :> 77) @@ ("78" :> 78) @@
  ("79" :> 79) @@ ("80" :> 80) @@ ("81" :> 81) @@ ("82" :> 82) @@ ("83" :> 83) @@ ("84" :> 84) @@ ("85" :> 85) @@ ("86" :> 86) @@
  ("87" :> 87) @@ ("88" :> 88) @@ ("89" :> 89) @@ ("90" :> 90) @@ ("91" :> 91) @@ ("92" :> 92) @@ ("93" :> 93) @@ ("94" :> 94) @@
  ("95" :> 95) @@ ("96" :> 96) @@ ("97" :> 97) @@ ("98" :> 98) @@ ("99" :> 99) @@ ("100" :> 100) @@ ("101" :> 101) @@ ("102" :> 102) @@
  ("103" :> 103) @@ ("104" :> 104) @@ ("105" :> 105) @@ ("106" :> 106) @@ ("107" :> 107) @@ ("108" :> 108) @@ ("109" :> 109) @@ ("110" :> 110) @@
  ("111" :> 111) @@ ("112" :> 112) @@ ("113" :> 113) @@ ("114" :> 114) @@ ("115" :> 115) @@ ("116" :> 116) @@ ("117" :> 117) @@ ("118" :> 118) @@
  ("119" :> 119) @@ ("120" :> 120) @@ ("121" :> 121) @@ ("122" :> 122) @@ ("123" :> 123) @@ ("124" :> 124) @@ ("125" :> 125) @@ ("126" :> 126) @@
  ("127" :> 127) @@ ("128" :> 128) @@ ("129" :> 129) @@ ("130" :> 130) @@ ("131" :> 131) @@ ("132" :> 132) @@ ("133" :> 133) @@ ("134" :> 134) @@
  ("135" :> 135) @@ ("136" :> 136) @@ ("137" :> 137) @@ ("138" :> 138) @@ ("139" :> 139) @@ ("140" :> 140) @@ ("141" :> 141) @@ ("142" :> 142) @@
  ("143" :> 143) @@ ("144" :> 144) @@ ("145" :> 145) @@ ("146" :> 146) @@ ("147" :> 147) @@ ("148" :> 148) @@ ("149" :> 149) @@ ("153" :> 153) @@
  ("154" :> 154) @@ ("155" :> 155) @@ ("156" :> 156) @@ ("157" :> 157) @@ ("158" :> 158) @@ ("159" :> 159) @@ ("160" :> 160) @@ ("161" :> 161) @@
  ("162" :> 162) @@ ("163" :> 163) @@ ("164" :> 164) @@ ("165" :> 165) @@ ("166" :> 166) @@ ("167" :> 167) @@ ("168" :> 168) @@ ("169" :> 169)

\* ---- frappe.utils.cint on the code strings of the model ----
\* decimal value of every numeric string the model uses: the seed codes and
\* the codes a carrier response can carry ("011" is zero padded, "150" has
\* no seed entry), and the expires_in values of the token endpoints
ResponseDecimalValue ==
  ("011" :> 11) @@ ("150" :> 150) @@ ("600" :> 600) @@ ("900" :> 900)

cint(s) ==
  IF s \in DOMAIN DecimalValue THEN DecimalValue[s]
  ELSE IF s \in DOMAIN ResponseDecimalValue THEN ResponseDecimalValue[s]
  ELSE 0

PyInt(n) == [t |-> "int", i |-> n, s |-> ""]
PyStr(x) == [t |-> "str", i |-> 0, s |-> x]

\* value of a child-table field read back from the database: an Int column
\* yields a Python int, a Data column the string that was written
FieldValue(fieldtype, x) == IF fieldtype = "Int" THEN PyInt(cint(x)) ELSE PyStr(x)

\* ---- Parcel Service Settings ----
\* The child tables change only when a seeding function appends its whole
\* static list, so the settings hold, for each table, the number of times the
\* list has been appended (0: the table is empty); the rows are computed
\* from it.
Repeat(rows, count) ==
  [i \in 1..(count * Len(rows)) |-> rows[((i - 1) % Len(rows)) + 1]]

\* rows of code_details as read back with the column type of status_code
StatusCodeRowsInt ==
  [i \in 1..Len(code_details) |->
     [status_code |-> FieldValue("Int", code_details[i].status_code),
      jammy_description |-> code_details[i].jammy_description]]
StatusCodeRowsData ==
  [i \in 1..Len(code_details) |->
     [status_code |-> FieldValue("Data", code_details[i].status_code),
      jammy_description |-> code_details[i].jammy_description]]

status_code_description(st) ==
  Repeat(IF st.status_code_fieldtype = "Int" THEN StatusCodeRowsInt ELSE StatusCodeRowsData,
         st.status_code_description)
tracking_code_description(st) == Repeat(fedex_success_codes, st.tracking_code_description)
error_code_description(st) == Repeat(fedex_error_codes, st.error_code_description)
response_code_details(st) == Repeat(priority_success_codes, st.response_code_details)
error_code_details(st) == Repeat(priority_error_codes, st.error_code_details)

\* ---- the code -> jammy_description dicts the handlers build from the rows ----
\* dict.update in row order: the last row of a key gives its value
LastOf(idx) == CHOOSE i \in idx : \A j \in idx : j <= i

StatusCodeDict(rows) ==
  [k \in {rows[i].status_code : i \in DOMAIN rows} |->
     rows[LastOf({i \in DOMAIN rows : rows[i].status_code = k})].jammy_description]
FedexSuccessDict(rows) ==
  [k \in {rows[i].fedex_status_code : i \in DOMAIN rows} |->
     rows[LastOf({i \in DOMAIN rows : rows[i].fedex_status_code = k})].jammy_description]
FedexErrorDict(rows) ==
  [k \in {rows[i].fedex_error_code : i \in DOMAIN rows} |->
     rows[LastOf({i \in DOMAIN rows : rows[i].fedex_error_code = k})].jammy_description]
PrioritySuccessDict(rows) ==
  [k \in {rows[i].priority_status_description : i \in DOMAIN rows} |->
     rows[LastOf({i \in DOMAIN rows : rows[i].priority_status_description = k})].jammy_description]
PriorityErrorDict(rows) ==
  [k \in {rows[i].response_code : i \in DOMAIN rows} |->
     rows[LastOf({i \in DOMAIN rows : rows[i].response_code = k})].jammy_description]

\* the dicts of the static lists. A table holding the list several times gives
\* the same dict as one copy: every further copy updates each key with the
\* value of the same last row
StatusCodeDictInt == StatusCodeDict(StatusCodeRowsInt)
StatusCodeDictData == StatusCodeDict(StatusCodeRowsData)
FedexSuccessSeedDict == FedexSuccessDict(fedex_success_codes)
FedexErrorSeedDict == FedexErrorDict(fedex_error_codes)
PrioritySuccessSeedDict == PrioritySuccessDict(priority_success_codes)
PriorityErrorSeedDict == PriorityErrorDict(priority_error_codes)
EmptyDict == <<>>

\* dict.get(key): None for a missing key
DictGet(dict, key) == IF key \in DOMAIN dict THEN dict[key] ELSE None

\* UPS: code_status_map of set_data_in_delivery_note
code_status_map(st) ==
  IF st.status_code_description = 0 THEN EmptyDict
  ELSE IF st.status_code_fieldtype = "Int" THEN StatusCodeDictInt ELSE StatusCodeDictData

\* FedEx: create_map_with_description
fedex_success_map(st) ==
  IF st.tracking_code_description = 0 THEN EmptyDict ELSE FedexSuccessSeedDict
fedex_error_map(st) ==
  IF st.error_code_description = 0 THEN EmptyDict ELSE FedexErrorSeedDict

\* Priority: create_map_with_description
priority_success_map(st) ==
  IF st.response_code_details = 0 THEN EmptyDict ELSE PrioritySuccessSeedDict
priority_error_map(st) ==
  IF st.error_code_details = 0 THEN EmptyDict ELSE PriorityErrorSeedDict

\* f"{error.get('code')}" for the HTTP status codes of the model
StatusCodeText == (400 :> "400") @@ (401 :> "401") @@ (404 :> "404") @@ (500 :> "500")

\* ---- values returned by make_api_request: (result, error) ----
NoError == [kind |-> "none", code |-> 0]
NoResult == [kind |-> "none"]

\* error of the UPS and FedEx make_api_request: the decoded body of a non-2xx
\* response (JSON text or any other text), the 1-tuple built for an empty
\* body, or the traceback string of a failed request
TextErrors ==
  { [kind |-> k, code |-> 0] : k \in {"json_text", "text", "tuple", "traceback"} }

\* error of the Priority make_api_request: a dict carrying the HTTP status
\* code, or the traceback string
PriorityErrors ==
  { [kind |-> "dict", code |-> c] : c \in DOMAIN StatusCodeText }
    \cup { [kind |-> "traceback", code |-> 0] }

\* json.loads(error) of update_delivery_note_with_fedex_details raises unless
\* the error is a string holding JSON text
JsonLoadsRaises(error) == error.kind # "json_text"

\* ---- outcome of a response handler ----
\* outcome: "saved" (document.save ran), "raised" (an exception left the
\* handler before any save; the stored record is the one read), "silent"
\* (the handler returned without saving and without raising)
Saved(doc, path) == [doc |-> doc, outcome |-> "saved", path |-> path]
Raised(doc, path) == [doc |-> doc, outcome |-> "raised", path |-> path]
Silent(doc, path) == [doc |-> doc, outcome |-> "silent", path |-> path]

\* ---- UPS: set_data_in_delivery_note ----
\* a row of custom_tracking_details for a package of
\* result['trackResponse']['shipment'][0]['package']
UpsRow(st, package) ==
  [tracking_id |-> package.trackingNumber,
   status_code |-> package.code,
   status_description |-> code_status_map(st)[PyInt(cint(package.code))]]

\* parent_jammy_status_code: '' unless a row's status_code equals cint(code);
\* the last such row gives the value
parent_jammy_status_code(st, code) ==
  IF PyInt(cint(code)) \in DOMAIN code_status_map(st)
    THEN code_status_map(st)[PyInt(cint(code))]
    ELSE ""

\* the fields the error branch sets
UpsErrorDoc(doc) == [doc EXCEPT !.custom_tracking = "ERPNext Exception"]

\* UpsNotFoundDoc with a bug: the 'warnings' branch also stamps custom_last_api_call
UpsNotFoundDocStamped(doc) ==
  [doc EXCEPT !.custom_tracking = "DN Not Found In UPS", !.custom_last_api_call = <<0>>]

\* the fields the 'warnings' branch sets
UpsNotFoundDoc(doc) == [doc EXCEPT !.custom_tracking = "DN Not Found In UPS"]

\* the fields and rows the "By Reference" branch sets
UpsByReferenceDoc(doc, st, packages, now) ==
  [doc EXCEPT
     !.tracking_number = packages[1].trackingNumber,
     !.custom_tracking_code = packages[1].code,
     !.custom_tracking = parent_jammy_status_code(st, packages[1].code),
     !.custom_last_api_call = <<now>>,
     !.custom_tracking_details = @ \o [i \in DOMAIN packages |-> UpsRow(st, packages[i])]]

\* UpsByTrackingIdDoc with a bug: the code and the time are saved without the status
UpsByTrackingIdDocNoStatus(doc, st, package_activities, now) ==
  [doc EXCEPT
     !.custom_tracking_code = package_activities[1],
     !.custom_last_api_call = <<now>>]

\* the fields the "By Tracking ID" branch sets
UpsByTrackingIdDoc(doc, st, package_activities, now) ==
  [doc EXCEPT
     !.custom_tracking_code = package_activities[1],
     !.custom_tracking = code_status_map(st)[PyInt(cint(package_activities[1]))],
     !.custom_last_api_call = <<now>>]

\* code_status_map[cint(code)] raises KeyError for a key the dict lacks
set_data_in_delivery_note(doc, st, result, error, tracking_method, now) ==
  IF error # NoError
    THEN Saved(UpsErrorDoc(doc), "error")
  ELSE IF result.kind = "no_trackResponse"
    THEN Raised(doc, "none")
  ELSE IF result.kind = "warnings"
    THEN Saved(UpsNotFoundDoc(doc), "nomatch")
  ELSE
    LET packages == result.package IN
    IF Len(packages) = 0 THEN Silent(doc, "none")
    ELSE IF tracking_method = "By Reference" THEN
      IF \E i \in DOMAIN packages :
           PyInt(cint(packages[i].code)) \notin DOMAIN code_status_map(st)
        THEN Raised(doc, "data")
        ELSE Saved(UpsByReferenceDoc(doc, st, packages, now), "data")
    ELSE IF tracking_method = "By Tracking ID" THEN
      LET package_activities == packages[1].activity IN
      IF Len(package_activities) = 0 THEN Silent(doc, "none")
      ELSE IF PyInt(cint(package_activities[1])) \notin DOMAIN code_status_map(st)
        THEN Raised(doc, "data")
        ELSE Saved(UpsByTrackingIdDoc(doc, st, package_activities, now), "data")
    ELSE Silent(doc, "none")

\* ---- FedEx: update_delivery_note_with_fedex_details ----
\* FedexProcessingDate with a bug: every poll that finds "Processing" sets the date again
FedexProcessingDateEveryPoll(doc, today) ==
  IF doc.custom_tracking = "Processing"
    THEN [doc EXCEPT !.custom_last_date_for_processing_status = <<today>>]
    ELSE [doc EXCEPT !.custom_last_date_for_processing_status = NoDate]

\* the Processing date rule of both lookup branches
FedexProcessingDate(doc, today) ==
  IF doc.custom_tracking = "Processing" /\ doc.custom_last_date_for_processing_status = NoDate
    THEN [doc EXCEPT !.custom_last_date_for_processing_status = <<today>>]
  ELSE IF doc.custom_tracking # "Processing"
    THEN [doc EXCEPT !.custom_last_date_for_processing_status = NoDate]
  ELSE doc

\* success_map.get(statusCode) or latestStatusDetail.description
FedexStatus(st, response) ==
  IF DictGet(fedex_success_map(st), response.statusCode) \in {None, ""}
    THEN response.description
    ELSE DictGet(fedex_success_map(st), response.statusCode)

\* the field the error branch sets
FedexErrorDoc(doc) == [doc EXCEPT !.custom_tracking = "Exception"]

\* the fields set for a track result without latestStatusDetail
FedexInbandErrorDoc(doc, st, response) ==
  [doc EXCEPT
     !.custom_tracking_code = response.error_code,
     !.custom_tracking = DictGet(fedex_error_map(st), response.error_code)]

\* the fields the "By Reference" branch sets
FedexByReferenceDoc(doc, st, response, now) ==
  FedexProcessingDate(
    [doc EXCEPT
       !.custom_last_api_call = <<now>>,
       !.tracking_number = response.trackingNumber,
       !.custom_tracking_code = response.code,
       !.custom_tracking = FedexStatus(st, response)], now)

\* the fields the "By Tracking ID" branch sets
FedexByTrackingIdDoc(doc, st, response, now) ==
  FedexProcessingDate(
    [doc EXCEPT
       !.custom_last_api_call = <<now>>,
       !.custom_tracking_code = response.code,
       !.custom_tracking = FedexStatus(st, response)], now)

update_delivery_note_with_fedex_details(doc, st, response, error, api_type, now) ==
  IF error # NoError THEN
    IF JsonLoadsRaises(error) THEN Raised(doc, "error")
    ELSE Saved(FedexErrorDoc(doc), "error")
  ELSE IF response.kind \in {"none", "no_output", "empty_track_results"}
    THEN Silent(doc, "none")
  ELSE IF response.kind = "bare_result"
    THEN Raised(doc, "inband")
  ELSE IF response.kind = "inband"
    THEN Saved(FedexInbandErrorDoc(doc, st, response), "inband")
  ELSE IF api_type = "By Reference"
    THEN Saved(FedexByReferenceDoc(doc, st, response, now), "data")
  ELSE IF api_type = "By Tracking ID"
    THEN Saved(FedexByTrackingIdDoc(doc, st, response, now), "data")
  ELSE Silent(doc, "none")

\* ---- Priority: update_delivery_note_with_priority_details ----
\* PriorityErrorDictDoc with a bug: the error branch also stamps custom_last_api_call
PriorityErrorDictDocStamped(doc, st, error, today) ==
  [doc EXCEPT
     !.custom_tracking = priority_error_map(st)[StatusCodeText[error.code]],
     !.custom_incident_first_date =
         IF error.code = 500 /\ @ = NoDate THEN <<today>> ELSE @,
     !.custom_last_api_call = <<today>>]

\* PriorityErrorDictDoc with a bug: code 500 sets the status and no incident date
PriorityErrorDictDocNoIncident(doc, st, error, today) ==
  [doc EXCEPT !.custom_tracking = priority_error_map(st)[StatusCodeText[error.code]]]

\* PriorityErrorDictDoc with a bug: every code 500 overwrites custom_incident_first_date
PriorityErrorDictDocRestamps(doc, st, error, today) ==
  [doc EXCEPT
     !.custom_tracking = priority_error_map(st)[StatusCodeText[error.code]],
     !.custom_incident_first_date = IF error.code = 500 THEN <<today>> ELSE @]

\* the fields set for an error dict whose code is registered (401 sets the
\* status only; any other code also sets the incident date when it is 500)
PriorityErrorDictDoc(doc, st, error, today) ==
  IF error.code = 401
    THEN [doc EXCEPT !.custom_tracking = priority_error_map(st)[StatusCodeText[error.code]]]
    ELSE [doc EXCEPT
            !.custom_tracking = priority_error_map(st)[StatusCodeText[error.code]],
            !.custom_incident_first_date =
                IF error.code = 500 /\ @ = NoDate THEN <<today>> ELSE @]

\* the field set for an error that is not a dict
PriorityExceptionDoc(doc) == [doc EXCEPT !.custom_tracking = "Exception"]

\* PriorityShipmentDoc with a bug: custom_last_api_call is not stamped
PriorityShipmentDocNoStamp(doc, st, response, now) ==
  [doc EXCEPT
     !.tracking_number = response.id,
     !.custom_tracking_code = "200",
     !.custom_tracking = DictGet(priority_success_map(st), response.status)]

\* the fields set from response['shipments'][0]
PriorityShipmentDoc(doc, st, response, now) ==
  [doc EXCEPT
     !.tracking_number = response.id,
     !.custom_tracking_code = "200",
     !.custom_tracking = DictGet(priority_success_map(st), response.status),
     !.custom_last_api_call = <<now>>]

\* desc = error_map.get(f"{code}") is None for an unregistered code, and
\* desc.get("jammy_description") then raises
update_delivery_note_with_priority_details(doc, st, response, error, now) ==
  IF error # NoError THEN
    IF error.kind = "dict" THEN
      IF StatusCodeText[error.code] \notin DOMAIN priority_error_map(st)
        THEN Raised(doc, "error")
        ELSE Saved(PriorityErrorDictDoc(doc, st, error, now), "error")
    ELSE Saved(PriorityExceptionDoc(doc), "error")
  ELSE IF response.kind = "data"
    THEN Saved(PriorityShipmentDoc(doc, st, response, now), "data")
  ELSE Silent(doc, "none")

\* ---- carrier responses the model draws from ----
UpsCodes == {"3", "5", "011", "150"}
\* codes of the packages after the first: one with a table row, one without
UpsOtherCodes == {"5", "150"}
UpsTrackingNumbers == <<"1Z1", "1Z2", "1Z3">>

\* package lists of a by-reference result: package i carries the i-th tracking
\* number and any current status code (the activity list is not read)
UpsPackageLists(len) ==
  { [i \in 1..len |-> [trackingNumber |-> UpsTrackingNumbers[i], code |-> c[i], activity |-> <<>>]] :
      c \in { f \in [1..len -> UpsCodes] : \A i \in 2..len : f[i] \in UpsOtherCodes } }

UpsResults(tracking_method) ==
  { [kind |-> "warnings", package |-> <<>>], [kind |-> "no_trackResponse", package |-> <<>>] }
  \cup
  IF tracking_method = "By Reference"
    THEN { [kind |-> "packages", package |-> p] :
             p \in UNION { UpsPackageLists(len) : len \in 0..MaxPackages } }
    ELSE { [kind |-> "packages", package |-> p] :
             p \in { <<>> } \cup
                   { << [trackingNumber |-> UpsTrackingNumbers[1], code |-> "5", activity |-> a] >> :
                       a \in { <<>> } \cup { <<c>> : c \in UpsCodes } } }

FedexStatusCodes == {None, "OC", "DL", "ZZ"}
FedexLatestCodes == {"OC", "DL"}
FedexDescriptions == {None, "In transit"}
FedexErrorCodes == {"TRACKING.TRACKINGNUMBER.NOTFOUND", "SYSTEM.UNAVAILABLE.EXCEPTION"}

FedexResponse(kind, tn, sc, code, desc, ec) ==
  [kind |-> kind, trackingNumber |-> tn, statusCode |-> sc, code |-> code,
   description |-> desc, error_code |-> ec]

FedexResponses(api_type) ==
  { FedexResponse(k, None, None, None, None, None) :
      k \in {"none", "no_output", "empty_track_results", "bare_result"} }
  \cup { FedexResponse("inband", None, None, None, None, ec) : ec \in FedexErrorCodes }
  \cup { FedexResponse("data", "7946", sc, code, desc, None) :
           sc \in FedexStatusCodes, code \in FedexLatestCodes, desc \in FedexDescriptions }
  \cup { FedexResponse("data", None, "DL", "DL", "Delivered", None) }

PriorityIds == {"P1", "P2", None}
PriorityStatuses == {"Dispatched", "In Transit", "Delivered", "On Hold"}

PriorityResponses ==
  { [kind |-> k, id |-> None, status |-> None] : k \in {"none", "no_shipments", "empty_shipment"} }
  \cup { [kind |-> "data", id |-> id, status |-> s] : id \in PriorityIds, s \in PriorityStatuses }

\* what make_api_request returns: a result and no error, or an error and {}
ApiReturns(results, errors) ==
  { [result |-> r, error |-> NoError] : r \in results }
  \cup { [result |-> NoResult, error |-> e] : e \in errors }

\* the returns of a carrier's tracking request in a lookup mode
Returns(carrier, method) ==
  IF carrier = "UPS" THEN ApiReturns(UpsResults(method), TextErrors)
  ELSE IF carrier = "FedEx" THEN ApiReturns(FedexResponses(method), TextErrors)
  ELSE ApiReturns(PriorityResponses, PriorityErrors)

\* the returns of a request that carries the client's token: a carrier
\* answers a request without a token with an error
RequestReturns(carrier, method, token) ==
  IF token = None
    THEN { ret \in Returns(carrier, method) : ret.error # NoError }
    ELSE Returns(carrier, method)

\* ---- client construction: __initialize_auth and get_auth_token ----
Carriers == {"UPS", "FedEx", "Priority"}
ACCESS_TOKEN_KEY ==
  ("UPS" :> "ups_api_access_token") @@ ("FedEx" :> "fedex_access_token")
    @@ ("Priority" :> "priority_access_token")

\* a client's token and the cache after construction. With a cached token no
\* issuance call is made; otherwise get_auth_token returns the issued token
\* and caches it, or logs the failure and returns None (the request raised,
\* or the reply carried no access_token)
ClientAuth(carrier, cached) ==
  IF cached # None
    THEN { [auth |-> "cached", token |-> cached, cached |-> cached] }
  ELSE IF carrier = "Priority"
    THEN { [auth |-> "issued", token |-> "priority_api_key", cached |-> "priority_api_key"] }
  ELSE { [auth |-> "issued", token |-> "token", cached |-> "token"],
         [auth |-> "failed", token |-> None, cached |-> None] }

\* TrackingMethod with a bug: the mode never switches to "By Tracking ID"
TrackingMethodNeverSwitches(doc) == "By Reference"

\* ---- the lookup mode a poll decides from the record it reads ----
TrackingMethod(doc) ==
  IF doc.tracking_number = None THEN "By Reference" ELSE "By Tracking ID"

\* ---- warehouses and FedEx account numbers ----
Warehouses == {"WH-1", "WH-2"}

\* the rows of settings.account_number_details: one warehouse has an account
AccountNumberDetails == << [source_warehouse |-> "WH-1", account_number |-> "ACC-1"] >>

\* accountNumber of fetch_fedex_tracking_details: None, then the account of
\* every row whose source_warehouse is the note's set_warehouse (the last
\* matching row wins)
AccountNumber(doc, st) ==
  LET rows == SelectSeq(st.account_number_details,
                        LAMBDA acc : acc.source_warehouse = doc.set_warehouse)
  IN IF rows = <<>> THEN None ELSE rows[Len(rows)].account_number

\* ---- delivery notes ----
\* a note as created: submitted (docstatus 1) and posted on day 0
NewDeliveryNote(ship_via, tracking_number) ==
  [ship_via |-> ship_via,
   tracking_number |-> tracking_number,
   custom_tracking |-> None,
   custom_tracking_code |-> None,
   custom_last_api_call |-> NoDate,
   custom_last_date_for_processing_status |-> NoDate,
   custom_incident_first_date |-> NoDate,
   custom_tracking_details |-> <<>>,
   posting_date |-> 0,
   docstatus |-> 1,
   set_warehouse |-> "WH-1"]

SeededSettings(fieldtype) ==
  [status_code_fieldtype |-> fieldtype,
   status_code_description |-> 1,
   tracking_code_description |-> 1,
   error_code_description |-> 1,
   response_code_details |-> 1,
   error_code_details |-> 1,
   check_no_of_days_scheduler |-> 1,
   check_past_no_of_days_for_scheduler |-> 1,
   past_no_of_days_for_scheduler |-> 1,
   account_number_details |-> AccountNumberDetails]

NoPoll ==
  [op |-> "none", n |-> None, carrier |-> None, method |-> None, auth |-> None,
   request_sent |-> FALSE, result_kind |-> None, error |-> NoError,
   outcome |-> None, path |-> None, accountNumber |-> None]

Init ==
  /\ \E c \in Carriers, tn \in {None, "T0"} :
     \E wh \in (IF c = "FedEx" THEN Warehouses ELSE {"WH-1"}) :
       dn = [n \in {"DN-1"} |-> [NewDeliveryNote(c, tn) EXCEPT !.set_warehouse = wh]]
  /\ \E fieldtype \in {"Int", "Data"} : settings = SeededSettings(fieldtype)
  /\ cache = [k \in {ACCESS_TOKEN_KEY[c] : c \in Carriers} |-> None]
  /\ clock = 0
  /\ last = NoPoll
  /\ client = NoClients

\* the record of a poll: the mode it decided, how the client got its token,
\* whether the tracking request was sent, the kind of value make_api_request
\* returned and how the handler ended
PollRecord(op, n, carrier, method, a, ret, out) ==
  [op |-> op, n |-> n, carrier |-> carrier, method |-> method, auth |-> a.auth,
   request_sent |-> TRUE, result_kind |-> ret.result.kind, error |-> ret.error,
   outcome |-> out.outcome, path |-> out.path, accountNumber |-> None]

\* ---- get_ups_tracking_data ----
get_ups_tracking_data(n) ==
  /\ dn[n].ship_via = "UPS"
  /\ \E a \in ClientAuth("UPS", cache[ACCESS_TOKEN_KEY["UPS"]]) :
     \E ret \in RequestReturns("UPS", TrackingMethod(dn[n]), a.token) :
       LET tracking_method == TrackingMethod(dn[n])
           out == set_data_in_delivery_note(dn[n], settings, ret.result, ret.error,
                                            tracking_method, clock)
       IN /\ dn' = [dn EXCEPT ![n] = out.doc]
          /\ cache' = [cache EXCEPT ![ACCESS_TOKEN_KEY["UPS"]] = a.cached]
          /\ last' = PollRecord("poll", n, "UPS", tracking_method, a, ret, out)
  /\ UNCHANGED <<client, settings, clock>>

\* ---- fetch_fedex_tracking_details ----
\* the request is sent in both modes whatever accountNumber is: the
\* by-reference payload carries it, None included
fetch_fedex_tracking_details(n) ==
  /\ dn[n].ship_via = "FedEx"
  /\ \E a \in ClientAuth("FedEx", cache[ACCESS_TOKEN_KEY["FedEx"]]) :
     \E ret \in RequestReturns("FedEx", TrackingMethod(dn[n]), a.token) :
       LET api_type == TrackingMethod(dn[n])
           out == update_delivery_note_with_fedex_details(dn[n], settings, ret.result,
                                                          ret.error, api_type, clock)
       IN /\ dn' = [dn EXCEPT ![n] = out.doc]
          /\ cache' = [cache EXCEPT ![ACCESS_TOKEN_KEY["FedEx"]] = a.cached]
          /\ last' = [PollRecord("poll", n, "FedEx", api_type, a, ret, out)
                        EXCEPT !.accountNumber = AccountNumber(dn[n], settings)]
  /\ UNCHANGED <<client, settings, clock>>

\* ---- fetch_priority_tracking_details ----
\* the request always carries identifierValue = the delivery note's name
fetch_priority_tracking_details(n) ==
  /\ dn[n].ship_via = "Priority"
  /\ \E a \in ClientAuth("Priority", cache[ACCESS_TOKEN_KEY["Priority"]]) :
     \E ret \in RequestReturns("Priority", "By Reference", a.token) :
       LET out == update_delivery_note_with_priority_details(dn[n], settings, ret.result,
                                                             ret.error, clock)
       IN /\ dn' = [dn EXCEPT ![n] = out.doc]
          /\ cache' = [cache EXCEPT ![ACCESS_TOKEN_KEY["Priority"]] = a.cached]
          /\ last' = PollRecord("poll", n, "Priority", "By Reference", a, ret, out)
  /\ UNCHANGED <<client, settings, clock>>

\* ---- the cache drops a token when its lifetime has run out ----
CacheExpire(carrier) ==
  /\ carrier \in {"UPS", "FedEx"}
  /\ cache[ACCESS_TOKEN_KEY[carrier]] # None
  /\ cache' = [cache EXCEPT ![ACCESS_TOKEN_KEY[carrier]] = None]
  /\ UNCHANGED <<client, dn, settings, clock, last>>

\* ---- a day passes (the model follows a site for max days) ----
DayPasses(max) ==
  /\ clock < max
  /\ clock' = clock + 1
  /\ UNCHANGED <<client, dn, settings, cache, last>>

Tick == DayPasses(MaxDay)

Next ==
  \/ \E n \in DOMAIN dn : get_ups_tracking_data(n)
  \/ \E n \in DOMAIN dn : fetch_fedex_tracking_details(n)
  \/ \E n \in DOMAIN dn : fetch_priority_tracking_details(n)
  \/ \E c \in Carriers : CacheExpire(c)
  \/ Tick

Spec == Init /\ [][Next]_vars

\* ==== seeding of the Parcel Service Settings tables ====

\* Seeded with a bug: the list is appended whether or not the table is empty
SeededAlways(count) == count + 1

\* a seeding function appends its list to a table only when the table is empty
Seeded(count) == IF count = 0 THEN count + 1 ELSE count

\* the tables of a seeding function that are empty, which the call appends to
EmptyTables(st, tables) == {t \in tables : st[t] = 0}

SeedRecord(fn, filled) ==
  [op |-> "seed", fn |-> fn, filled |-> filled, carrier |-> None, table |-> None,
   code |-> None, status |-> None]

\* ---- api.fillup_status_code_data ----
fillup_status_code_data ==
  /\ settings' = [settings EXCEPT !.status_code_description = Seeded(@)]
  /\ last' = SeedRecord("fillup_status_code_data",
                         EmptyTables(settings, {"status_code_description"}))
  /\ UNCHANGED <<client, dn, cache, clock>>

\* ---- fedex_integration.fill_status_code_details_in_parcel_service_settings ----
fill_status_code_details_in_parcel_service_settings ==
  /\ settings' = [settings EXCEPT !.tracking_code_description = Seeded(@),
                                  !.error_code_description = Seeded(@)]
  /\ last' = SeedRecord("fill_status_code_details_in_parcel_service_settings",
                         EmptyTables(settings, {"tracking_code_description",
                                                "error_code_description"}))
  /\ UNCHANGED <<client, dn, cache, clock>>

\* ---- priority_integration.fillup_api_responce_code_details ----
fillup_api_responce_code_details ==
  /\ settings' = [settings EXCEPT !.response_code_details = Seeded(@),
                                  !.error_code_details = Seeded(@)]
  /\ last' = SeedRecord("fillup_api_responce_code_details",
                         EmptyTables(settings, {"response_code_details",
                                                "error_code_details"}))
  /\ UNCHANGED <<client, dn, cache, clock>>

\* the tables a handler builds its dicts from, and the raw codes of their lists
StatusTables ==
  { <<"UPS", "status_code_description">>,
    <<"FedEx", "tracking_code_description">>, <<"FedEx", "error_code_description">>,
    <<"Priority", "response_code_details">>, <<"Priority", "error_code_details">> }

\* the raw code of every row of a table, in row order
TableCodes(st, table) ==
  IF table = "status_code_description"
    THEN [i \in DOMAIN status_code_description(st) |->
            Repeat(code_details, st.status_code_description)[i].status_code]
  ELSE IF table = "tracking_code_description"
    THEN [i \in DOMAIN tracking_code_description(st) |->
            tracking_code_description(st)[i].fedex_status_code]
  ELSE IF table = "error_code_description"
    THEN [i \in DOMAIN error_code_description(st) |->
            error_code_description(st)[i].fedex_error_code]
  ELSE IF table = "response_code_details"
    THEN [i \in DOMAIN response_code_details(st) |->
            response_code_details(st)[i].priority_status_description]
  ELSE [i \in DOMAIN error_code_details(st) |-> error_code_details(st)[i].response_code]

\* the jammy_description of every row of a table, in row order
TableStatuses(st, table) ==
  IF table = "status_code_description"
    THEN [i \in DOMAIN status_code_description(st) |->
            status_code_description(st)[i].jammy_description]
  ELSE IF table = "tracking_code_description"
    THEN [i \in DOMAIN tracking_code_description(st) |->
            tracking_code_description(st)[i].jammy_description]
  ELSE IF table = "error_code_description"
    THEN [i \in DOMAIN error_code_description(st) |->
            error_code_description(st)[i].jammy_description]
  ELSE IF table = "response_code_details"
    THEN [i \in DOMAIN response_code_details(st) |->
            response_code_details(st)[i].jammy_description]
  ELSE [i \in DOMAIN error_code_details(st) |-> error_code_details(st)[i].jammy_description]

\* the raw codes of the static list a table is seeded with
SeedCodes(table) ==
  IF table = "status_code_description"
    THEN {code_details[i].status_code : i \in DOMAIN code_details}
  ELSE IF table = "tracking_code_description"
    THEN {fedex_success_codes[i].fedex_status_code : i \in DOMAIN fedex_success_codes}
  ELSE IF table = "error_code_description"
    THEN {fedex_error_codes[i].fedex_error_code : i \in DOMAIN fedex_error_codes}
  ELSE IF table = "response_code_details"
    THEN {priority_success_codes[i].priority_status_description :
            i \in DOMAIN priority_success_codes}
  ELSE {priority_error_codes[i].response_code : i \in DOMAIN priority_error_codes}

\* the status a handler's dict gives for a raw code: the UPS handler looks up
\* cint(code), the others the code itself; None when the dict has no such key
MappedStatus(st, table, code) ==
  IF table = "status_code_description"
    THEN DictGet(code_status_map(st), PyInt(cint(code)))
  ELSE IF table = "tracking_code_description" THEN DictGet(fedex_success_map(st), code)
  ELSE IF table = "error_code_description" THEN DictGet(fedex_error_map(st), code)
  ELSE IF table = "response_code_details" THEN DictGet(priority_success_map(st), code)
  ELSE DictGet(priority_error_map(st), code)

\* ---- a handler builds its dict from a table and looks a raw code up ----
LookupStatus(carrier, table, code) ==
  /\ <<carrier, table>> \in StatusTables
  /\ code \in SeedCodes(table)
  /\ last' = [op |-> "lookup", fn |-> None, filled |-> {}, carrier |-> carrier, table |-> table,
              code |-> code, status |-> MappedStatus(settings, table, code)]
  /\ UNCHANGED <<client, dn, settings, cache, clock>>

\* the tables of the two functions that fill a success and an error table
PairedTables ==
  {"tracking_code_description", "error_code_description",
   "response_code_details", "error_code_details"}

\* the tables an administrator has filled in the settings form before the
\* first seeding
HandFilledTables == {"error_code_description", "response_code_details", "error_code_details"}

\* a site before seeding: every table is empty, or one table of a FedEx or
\* Priority pair already has the rows of its list and the other tables are
\* empty
SeedInit ==
  /\ dn = [n \in {"DN-1"} |-> NewDeliveryNote("UPS", None)]
  /\ \E fieldtype \in {"Int", "Data"}, present \in {None} \cup HandFilledTables :
       settings = [t \in DOMAIN SeededSettings(fieldtype) |->
                     IF t \in PairedTables \cup {"status_code_description"}
                       THEN (IF t = present THEN 1 ELSE 0)
                       ELSE SeededSettings(fieldtype)[t]]
  /\ cache = [k \in {ACCESS_TOKEN_KEY[c] : c \in Carriers} |-> None]
  /\ clock = 0
  /\ last = SeedRecord(None, {})
  /\ client = NoClients

SeedNext ==
  \/ fillup_status_code_data
  \/ fill_status_code_details_in_parcel_service_settings
  \/ fillup_api_responce_code_details
  \/ \E t \in StatusTables : \E code \in SeedCodes(t[2]) : LookupStatus(t[1], t[2], code)

SeedSpec == SeedInit /\ [][SeedNext]_vars

\* ==== properties ====

\* the poll steps: a poll never drops a cached token and takes no time
TokenDropped == \E k \in DOMAIN cache : cache[k] # None /\ cache'[k] = None
PollStep(n) == last'.op = "poll" /\ last'.n = n /\ clock' = clock /\ ~TokenDropped

\* the response handler of the note's carrier
Handle(doc, st, ret, method, now) ==
  IF doc.ship_via = "UPS"
    THEN set_data_in_delivery_note(doc, st, ret.result, ret.error, method, now)
  ELSE IF doc.ship_via = "FedEx"
    THEN update_delivery_note_with_fedex_details(doc, st, ret.result, ret.error, method, now)
  ELSE update_delivery_note_with_priority_details(doc, st, ret.result, ret.error, now)

\* the step is a poll of note n in which make_api_request returned ret
PollStepWith(n, ret) ==
  /\ PollStep(n)
  /\ last'.error = ret.error
  /\ last'.result_kind = ret.result.kind
  /\ LET out == Handle(dn[n], settings, ret, last'.method, clock)
     IN dn'[n] = out.doc /\ last'.outcome = out.outcome /\ last'.path = out.path

\* C1: after any sequence of FedEx polls, custom_last_date_for_processing_status
\* is non-null exactly when custom_tracking is "Processing" (the status of
\* every poll since the date was set)
C1_ProcessingDateIffProcessing ==
  \A n \in DOMAIN dn :
    dn[n].ship_via = "FedEx" =>
      (dn[n].custom_last_date_for_processing_status # NoDate
         <=> dn[n].custom_tracking = "Processing")

\* the status each carrier's handler saves for an error it cannot interpret
ExceptionSentinel ==
  ("UPS" :> "ERPNext Exception") @@ ("FedEx" :> "Exception") @@ ("Priority" :> "Exception")

UnparseableErrorKinds == {"text", "traceback", "tuple"}

SameTimestamps(a, b) ==
  /\ a.custom_last_api_call = b.custom_last_api_call
  /\ a.custom_last_date_for_processing_status = b.custom_last_date_for_processing_status
  /\ a.custom_incident_first_date = b.custom_incident_first_date

\* C2: a poll whose error is not parseable structured data (body text that is
\* not JSON, a traceback, the tuple of an empty body) does not raise: it saves
\* the carrier's Exception sentinel and changes no timestamp field
C2_UnparseableErrorSavesSentinel ==
  [][\A n \in DOMAIN dn :
       (PollStep(n) /\ last'.error.kind \in UnparseableErrorKinds) =>
         /\ last'.outcome = "saved"
         /\ dn'[n].custom_tracking = ExceptionSentinel[dn[n].ship_via]
         /\ SameTimestamps(dn[n], dn'[n])]_vars

\* the raw status code the handler looks up, None when the result has none
RawStatusCode(doc, ret, method) ==
  IF doc.ship_via = "UPS" THEN
    IF ret.result.kind # "packages" \/ Len(ret.result.package) = 0 THEN None
    ELSE IF method = "By Reference" THEN ret.result.package[1].code
    ELSE IF Len(ret.result.package[1].activity) = 0 THEN None
    ELSE ret.result.package[1].activity[1]
  ELSE IF ret.result.kind # "data" THEN None
  ELSE IF doc.ship_via = "FedEx" THEN ret.result.statusCode
  ELSE ret.result.status

HasTableEntry(carrier, code) ==
  IF carrier = "UPS"
    THEN \E i \in DOMAIN code_details : cint(code_details[i].status_code) = cint(code)
  ELSE IF carrier = "FedEx"
    THEN \E i \in DOMAIN fedex_success_codes : fedex_success_codes[i].fedex_status_code = code
  ELSE \E i \in DOMAIN priority_success_codes :
         priority_success_codes[i].priority_status_description = code

\* the human-readable status text of the result, None when it carries none
CarrierStatusText(doc, ret) ==
  IF doc.ship_via = "FedEx" THEN ret.result.description
  ELSE IF doc.ship_via = "Priority" THEN ret.result.status
  ELSE None

\* C3: a success result whose raw status code has no entry in the carrier's
\* status-code table does not raise and saves a non-empty status: the status
\* text the carrier supplied if there is one, otherwise "Unmapped"
C3_UnmappedCodeSavesFallback ==
  [][\A n \in DOMAIN dn : \A ret \in Returns(dn[n].ship_via, last'.method) :
       ( /\ RawStatusCode(dn[n], ret, last'.method) # None
         /\ ~HasTableEntry(dn[n].ship_via, RawStatusCode(dn[n], ret, last'.method))
         /\ PollStepWith(n, ret) ) =>
         /\ last'.outcome = "saved"
         /\ dn'[n].custom_tracking \notin {None, ""}
         /\ dn'[n].custom_tracking =
              IF CarrierStatusText(dn[n], ret) # None
                THEN CarrierStatusText(dn[n], ret) ELSE "Unmapped"]_vars

\* C4: handling the same return of make_api_request a second time, in the same
\* lookup mode, leaves the record as the first handling left it
C4_HandlerIdempotent ==
  [][\A n \in DOMAIN dn : \A ret \in Returns(dn[n].ship_via, last'.method) :
       PollStepWith(n, ret) =>
         Handle(dn'[n], settings, ret, last'.method, clock).doc = dn'[n]]_vars

C6_AuthFailureAbortsPoll ==
  [][\A n \in DOMAIN dn :
       (PollStep(n) /\ last'.auth = "failed") =>
         (~last'.request_sent /\ dn'[n] = dn[n])]_vars

\* C7: every poll that completes without a transport error stamps
\* custom_last_api_call with the current time
C7_StampOnEveryNonErrorPoll ==
  [][\A n \in DOMAIN dn :
       (PollStep(n) /\ last'.error = NoError /\ last'.outcome # "raised") =>
         dn'[n].custom_last_api_call = <<clock>>]_vars

\* C7 as amended: a poll that saves shipment data stamps custom_last_api_call
\* with the current time; a poll without transport error that finds no
\* shipment data (no-match, in-band carrier error, empty result) leaves it
\* as it was
C7_StampOnShipmentData ==
  [][\A n \in DOMAIN dn :
       (PollStep(n) /\ last'.error = NoError) =>
         IF last'.path = "data" /\ last'.outcome = "saved"
           THEN dn'[n].custom_last_api_call = <<clock>>
           ELSE dn'[n].custom_last_api_call = dn[n].custom_last_api_call]_vars

C7_Witness ==
  \E n \in DOMAIN dn :
    /\ last.op = "poll" /\ last.n = n
    /\ last.path = "data" /\ last.outcome = "saved"
    /\ clock > 0
    /\ dn[n].custom_last_api_call = <<clock>>

\* C8: a poll that ends on the transport-error path leaves
\* custom_last_api_call as it was
C8_ErrorPathKeepsLastApiCall ==
  [][\A n \in DOMAIN dn :
       (PollStep(n) /\ last'.path = "error") =>
         dn'[n].custom_last_api_call = dn[n].custom_last_api_call]_vars

C8_Witness ==
  \E n \in DOMAIN dn :
    /\ last.op = "poll" /\ last.n = n
    /\ last.path = "error" /\ last.outcome = "saved"
    /\ dn[n].custom_last_api_call # NoDate
    /\ dn[n].custom_last_api_call # <<clock>>

\* C9: every poll ends with a saved status update or a raised error
C9_PollSavesOrRaises ==
  last.op = "poll" => last.outcome \in {"saved", "raised"}

\* "T0" is the only tracking number that no poll stores
StoredByPoll(tracking_number) == tracking_number \notin {None, "T0"}

\* C10: a tracking_number stored by a poll is never changed by a later poll,
\* every later UPS or FedEx poll of the note is "By Tracking ID", and a
\* by-reference poll that finds shipment data stores a non-null tracking_number

C10_TrackingNumberPermanent ==
  [][\A n \in DOMAIN dn :
       /\ StoredByPoll(dn[n].tracking_number) =>
            dn'[n].tracking_number = dn[n].tracking_number
       /\ ( /\ PollStep(n)
            /\ StoredByPoll(dn[n].tracking_number)
            /\ dn[n].ship_via \in {"UPS", "FedEx"} ) =>
            last'.method = "By Tracking ID"
       /\ ( /\ PollStep(n)
            /\ last'.method = "By Reference"
            /\ last'.path = "data" /\ last'.outcome = "saved" ) =>
            dn'[n].tracking_number # None]_vars

\* the result or error carries an error code that the carrier's error-code
\* table does not register
UnknownErrorCode(doc, ret) ==
  \/ /\ doc.ship_via = "Priority"
     /\ ret.error.kind = "dict"
     /\ ~\E i \in DOMAIN priority_error_codes :
           priority_error_codes[i].response_code = StatusCodeText[ret.error.code]
  \/ /\ doc.ship_via = "FedEx"
     /\ ret.result.kind = "inband"
     /\ ~\E i \in DOMAIN fedex_error_codes :
           fedex_error_codes[i].fedex_error_code = ret.result.error_code

\* C11: a structured carrier error whose code has no entry in the error-code
\* table (Priority HTTP error, FedEx track result error) does not raise and
\* saves the generic "Exception" status
C11_UnknownErrorCodeSavesException ==
  [][\A n \in DOMAIN dn : \A ret \in Returns(dn[n].ship_via, last'.method) :
       (UnknownErrorCode(dn[n], ret) /\ PollStepWith(n, ret)) =>
         /\ last'.outcome = "saved"
         /\ dn'[n].custom_tracking = "Exception"]_vars

\* C12: for each carrier a poll that saves shipment data with the status
\* "Processing" sets custom_last_date_for_processing_status when it is null,
\* and one that saves any other status clears it
C12_ProcessingDateRuleAllCarriers ==
  [][\A n \in DOMAIN dn :
       (PollStep(n) /\ last'.path = "data" /\ last'.outcome = "saved") =>
         IF dn'[n].custom_tracking = "Processing"
           THEN (dn[n].custom_last_date_for_processing_status = NoDate =>
                   dn'[n].custom_last_date_for_processing_status = <<clock>>)
           ELSE dn'[n].custom_last_date_for_processing_status = NoDate]_vars

\* the status the tables give for what the carrier returned in this poll
PolledStatus(doc, st, ret, method) ==
  IF doc.ship_via = "UPS"
    THEN DictGet(code_status_map(st), PyInt(cint(RawStatusCode(doc, ret, method))))
  ELSE IF doc.ship_via = "FedEx"
    THEN IF ret.result.kind = "inband"
           THEN DictGet(fedex_error_map(st), ret.result.error_code)
           ELSE FedexStatus(st, ret.result)
  ELSE DictGet(priority_success_map(st), ret.result.status)

\* C13: a poll stores its field changes as one set: a poll that raises (or
\* ends without saving) changes no stored field, and custom_last_api_call,
\* custom_tracking_code, tracking_number or the detail rows are never stored
\* without the status of the same poll
C13_PollStoresOneSet ==
  [][\A n \in DOMAIN dn : \A ret \in Returns(dn[n].ship_via, last'.method) :
       PollStepWith(n, ret) =>
         /\ last'.outcome # "saved" => dn'[n] = dn[n]
         /\ ( \/ dn'[n].custom_last_api_call # dn[n].custom_last_api_call
              \/ dn'[n].custom_tracking_code # dn[n].custom_tracking_code
              \/ dn'[n].tracking_number # dn[n].tracking_number
              \/ dn'[n].custom_tracking_details # dn[n].custom_tracking_details ) =>
              /\ last'.outcome = "saved"
              /\ dn'[n].custom_tracking = PolledStatus(dn[n], settings, ret, last'.method)]_vars

C13_Witness ==
  \E n \in DOMAIN dn :
    /\ last.op = "poll" /\ last.n = n
    /\ dn[n].ship_via = "UPS" /\ last.method = "By Tracking ID"
    /\ last.path = "data" /\ last.outcome = "saved"
    /\ clock > 0 /\ dn[n].custom_last_api_call = <<clock>>
    /\ dn[n].custom_tracking = "Delivered"

\* C15: with the UPS table seeded, a by-reference poll whose first package
\* has currentStatus.code "5" saves that package's trackingNumber, the code
\* "5", the status "In Transit" and the current time, whatever the other
\* packages contain
C15_UpsByReferenceCode5 ==
  [][\A n \in DOMAIN dn : \A ret \in Returns("UPS", "By Reference") :
       ( /\ dn[n].ship_via = "UPS"
         /\ last'.method = "By Reference"
         /\ ret.result.kind = "packages"
         /\ Len(ret.result.package) > 0
         /\ ret.result.package[1].code = "5"
         /\ PollStepWith(n, ret) ) =>
         /\ last'.outcome = "saved"
         /\ dn'[n].tracking_number = ret.result.package[1].trackingNumber
         /\ dn'[n].custom_tracking_code = "5"
         /\ dn'[n].custom_tracking = "In Transit"
         /\ dn'[n].custom_last_api_call = <<clock>>]_vars

\* C16: a FedEx poll whose status is "Processing" sets
\* custom_last_date_for_processing_status to today when it is null, and
\* leaves it at its first value when it is already set, on any later day
C16_FedexProcessingDateSetOnce ==
  [][\A n \in DOMAIN dn :
       ( /\ PollStep(n)
         /\ dn[n].ship_via = "FedEx"
         /\ last'.path = "data" /\ last'.outcome = "saved"
         /\ dn'[n].custom_tracking = "Processing" ) =>
         dn'[n].custom_last_date_for_processing_status =
           IF dn[n].custom_last_date_for_processing_status = NoDate
             THEN <<clock>>
             ELSE dn[n].custom_last_date_for_processing_status]_vars

C16_Witness ==
  \E n \in DOMAIN dn :
    /\ last.op = "poll" /\ last.n = n
    /\ dn[n].ship_via = "FedEx"
    /\ last.path = "data" /\ last.outcome = "saved"
    /\ dn[n].custom_tracking = "Processing"
    /\ dn[n].custom_last_api_call = <<clock>>
    /\ dn[n].custom_last_date_for_processing_status # NoDate
    /\ dn[n].custom_last_date_for_processing_status # <<clock>>

\* C17: a Priority poll that ends with the error code 500 saves "DN Not
\* Found" and sets custom_incident_first_date to today only when it is null;
\* once set, no poll of any outcome changes or clears it
C17_IncidentDateSetOnce ==
  [][\A n \in DOMAIN dn :
       /\ ( /\ PollStep(n)
            /\ dn[n].ship_via = "Priority"
            /\ last'.error = [kind |-> "dict", code |-> 500] ) =>
            /\ last'.outcome = "saved"
            /\ dn'[n].custom_tracking = "DN Not Found"
            /\ dn[n].custom_incident_first_date = NoDate =>
                 dn'[n].custom_incident_first_date = <<clock>>
       /\ dn[n].custom_incident_first_date # NoDate =>
            dn'[n].custom_incident_first_date = dn[n].custom_incident_first_date]_vars

C17_Witness ==
  \E n \in DOMAIN dn :
    /\ last.op = "poll" /\ last.n = n
    /\ dn[n].ship_via = "Priority"
    /\ last.error = [kind |-> "dict", code |-> 500]
    /\ dn[n].custom_tracking = "DN Not Found"
    /\ dn[n].custom_incident_first_date # NoDate
    /\ dn[n].custom_incident_first_date # <<clock>>

\* C18: for a UPS note without tracking_number, a 2xx result whose first
\* shipment has 'warnings' saves "DN Not Found In UPS" and changes no other
\* field; the result does not take the error path
C18_UpsWarningsSetsStatusOnly ==
  [][\A n \in DOMAIN dn :
       ( /\ PollStep(n)
         /\ dn[n].ship_via = "UPS"
         /\ dn[n].tracking_number = None
         /\ last'.error = NoError
         /\ last'.result_kind = "warnings" ) =>
         /\ last'.outcome = "saved"
         /\ last'.path # "error"
         /\ dn'[n] = [dn[n] EXCEPT !.custom_tracking = "DN Not Found In UPS"]]_vars

C18_Witness ==
  \E n \in DOMAIN dn :
    /\ last.op = "poll" /\ last.n = n
    /\ dn[n].ship_via = "UPS"
    /\ last.result_kind = "warnings" /\ last.outcome = "saved"
    /\ dn[n].tracking_number = None
    /\ dn[n].custom_tracking = "DN Not Found In UPS"

\* the rows of the looked-up table that carry the looked-up raw code
LookedUpRows ==
  {i \in DOMAIN TableCodes(settings, last.table) :
     TableCodes(settings, last.table)[i] = last.code}

\* C14: once a seeding operation has populated a table, every raw code has
\* exactly one row and the dict built from the table gives the code the
\* status of that row (FedEx: "CA" gives "Cancelled", "SP" gives "Split In
\* Transit", "RC" and "EA" give "In Transit")
C14_SeededCodeHasOneEntry ==
  (last.op = "lookup" /\ settings[last.table] > 0) =>
    /\ Cardinality(LookedUpRows) = 1
    /\ \A i \in LookedUpRows : last.status = TableStatuses(settings, last.table)[i]
    /\ (last.table = "tracking_code_description" /\ last.code = "CA") =>
         last.status = "Cancelled"
    /\ (last.table = "tracking_code_description" /\ last.code = "SP") =>
         last.status = "Split In Transit"
    /\ (last.table = "tracking_code_description" /\ last.code \in {"RC", "EA"}) =>
         last.status = "In Transit"

\* ==== scheduler sweeps ====

\* ---- bounds of the sweep model ----
MaxSweepDay == 7

\* days of the trailing window an administrator configures
SchedulerDays == {1, 7}

\* INTERVAL 6 DAY of the Priority query for "DN Not Found" notes
IncidentRetryDays == 6

\* int(settings.<days field>) of a carrier's scheduler function
WindowDays(st, carrier) ==
  IF carrier = "UPS" THEN st.check_no_of_days_scheduler
  ELSE IF carrier = "FedEx" THEN st.check_past_no_of_days_for_scheduler
  ELSE st.past_no_of_days_for_scheduler

\* dn.posting_date BETWEEN add_to_date(today, days=-N) AND today
InWindow(doc, st, carrier, today) ==
  /\ today - WindowDays(st, carrier) <= doc.posting_date
  /\ doc.posting_date <= today

\* EligibleStatuses with a bug: a delivered note stays in scheduled polling
EligibleStatusesWithDelivered(carrier) ==
  {"Processing", "In Transit", "Exception", "Delivered", "DN Not Found In UPS", None}

\* the custom_tracking values of a carrier's query (None: IS NULL)
EligibleStatuses(carrier) ==
  IF carrier = "UPS"
    THEN {"Processing", "In Transit", "DN Not Found In UPS", None}
  ELSE IF carrier = "FedEx"
    THEN {"Processing", "In Transit", "In Transit, Delayed", "Split In Transit",
          "Exception", None}
  ELSE {"Processing", "In Transit", "Exception", None}

\* the WHERE clause of eligible_dns / eligible_delivery_notes; ship_via names
\* one carrier, which is the carrier whose LIKE pattern it matches
Eligible(doc, st, carrier, today) ==
  /\ InWindow(doc, st, carrier, today)
  /\ doc.ship_via = carrier
  /\ doc.docstatus = 1
  /\ doc.custom_tracking \in EligibleStatuses(carrier)

\* Exceptional with a bug: the query has no limit of days since the incident
ExceptionalNoLimit(doc, st, carrier, today) ==
  /\ carrier = "Priority"
  /\ InWindow(doc, st, carrier, today)
  /\ doc.ship_via = carrier
  /\ doc.docstatus = 1
  /\ doc.custom_tracking = "DN Not Found"

\* Exceptional with a bug: "DN Not Found" notes are never polled again
ExceptionalNever(doc, st, carrier, today) == FALSE

\* the WHERE clause of exceptional_delivery_notes (Priority only); DATE_ADD of
\* a NULL date is NULL and the row is not selected
Exceptional(doc, st, carrier, today) ==
  /\ carrier = "Priority"
  /\ InWindow(doc, st, carrier, today)
  /\ doc.ship_via = carrier
  /\ doc.docstatus = 1
  /\ doc.custom_tracking = "DN Not Found"
  /\ doc.custom_incident_first_date # NoDate
  /\ doc.custom_incident_first_date[1] + IncidentRetryDays > today

\* the rows of the database, in the order a query returns them
NoteOrder == <<"DN-1", "DN-2">>

\* names of the rows of eligible_dns / eligible_delivery_notes
EligibleRows(d, st, carrier, today) ==
  SelectSeq(NoteOrder, LAMBDA n : n \in DOMAIN d /\ Eligible(d[n], st, carrier, today))

\* names of the rows of exceptional_delivery_notes
ExceptionalRows(d, st, carrier, today) ==
  SelectSeq(NoteOrder, LAMBDA n : n \in DOMAIN d /\ Exceptional(d[n], st, carrier, today))

\* the notes a sweep polls, in order: both queries run before the first poll
SweepList(d, st, carrier, today) ==
  EligibleRows(d, st, carrier, today) \o ExceptionalRows(d, st, carrier, today)

\* the ways the poll of one note can end: the handler's outcome, the stored
\* note and the cached token
PollRuns(carrier, doc, st, cached, now) ==
  LET method == IF carrier = "Priority" THEN "By Reference" ELSE TrackingMethod(doc)
      calls == UNION { { <<a, ret>> : ret \in RequestReturns(carrier, method, a.token) } :
                         a \in ClientAuth(carrier, cached) }
  IN { LET out == Handle(doc, st, x[2], method, now)
       IN [doc |-> out.doc, outcome |-> out.outcome, cached |-> x[1].cached] : x \in calls }

\* the ways a sweep over a list of notes can end. The polls run one after the
\* other; an exception that leaves a poll leaves the scheduler function, and
\* the notes after it are not polled
RECURSIVE SweepRuns(_, _, _, _, _, _)
SweepRuns(carrier, names, d, st, c, now) ==
  IF names = <<>>
    THEN { [dn |-> d, cache |-> c, polled |-> <<>>, raised |-> FALSE] }
    ELSE LET n == Head(names) IN
         UNION { IF p.outcome = "raised"
                   THEN { [dn |-> d,
                           cache |-> [c EXCEPT ![ACCESS_TOKEN_KEY[carrier]] = p.cached],
                           polled |-> <<n>>, raised |-> TRUE] }
                   ELSE { [r EXCEPT !.polled = <<n>> \o @] :
                            r \in SweepRuns(carrier, Tail(names),
                                            [d EXCEPT ![n] = p.doc], st,
                                            [c EXCEPT ![ACCESS_TOKEN_KEY[carrier]] = p.cached],
                                            now) } :
                 p \in PollRuns(carrier, d[n], st, c[ACCESS_TOKEN_KEY[carrier]], now) }

\* ---- update_dn_by_schedular and the two
\* ---- check_and_update_eligible_delivery_note_by_scheduler functions
\* the record of a sweep: the notes its queries selected, the status each had
\* then, and the notes whose poll was started
Sweep(carrier) ==
  LET names == SweepList(dn, settings, carrier, clock) IN
  \E r \in SweepRuns(carrier, names, dn, settings, cache, clock) :
    /\ dn' = r.dn
    /\ cache' = r.cache
    /\ last' = [op |-> "sweep", carrier |-> carrier, selected |-> names,
                statuses |-> [i \in DOMAIN names |-> dn[names[i]].custom_tracking],
                polled |-> r.polled, raised |-> r.raised]
    /\ UNCHANGED <<client, settings, clock>>

\* a site with one note of a carrier, a draft or submitted, posted today, and
\* the same window configured for every carrier
SweepInit ==
  /\ \E c \in Carriers, docstatus \in {0, 1} :
       dn = [n \in {"DN-1"} |-> [NewDeliveryNote(c, None) EXCEPT !.docstatus = docstatus]]
  /\ \E days \in SchedulerDays :
       settings = [SeededSettings("Int") EXCEPT
                     !.check_no_of_days_scheduler = days,
                     !.check_past_no_of_days_for_scheduler = days,
                     !.past_no_of_days_for_scheduler = days]
  /\ cache = [k \in {ACCESS_TOKEN_KEY[c] : c \in Carriers} |-> None]
  /\ clock = 0
  /\ last = NoPoll
  /\ client = NoClients

SweepNext ==
  \/ \E c \in Carriers : Sweep(c)
  \/ \E c \in Carriers : CacheExpire(c)
  \/ DayPasses(MaxSweepDay)

SweepSpec == SweepInit /\ [][SweepNext]_vars

\* a site with two submitted notes of one carrier, posted today
BatchInit ==
  /\ \E c \in Carriers :
       dn = [n \in {"DN-1", "DN-2"} |-> NewDeliveryNote(c, None)]
  /\ settings = SeededSettings("Int")
  /\ cache = [k \in {ACCESS_TOKEN_KEY[c] : c \in Carriers} |-> None]
  /\ clock = 0
  /\ last = NoPoll
  /\ client = NoClients

\* the first sweep of the site
FirstSweep(carrier) == last = NoPoll /\ Sweep(carrier)

BatchNext ==
  \/ \E c \in Carriers : FirstSweep(c)
  \/ \E c \in Carriers : CacheExpire(c)

BatchSpec == BatchInit /\ [][BatchNext]_vars

\* the step is a sweep of a carrier
SweepStep(carrier) ==
  last'.op = "sweep" /\ last'.carrier = carrier /\ clock' = clock /\ ~TokenDropped

InSeq(n, names) == \E i \in DOMAIN names : names[i] = n

\* the status a carrier's poll saves when the carrier has no match for the note
NoMatchStatus == ("UPS" :> "DN Not Found In UPS") @@ ("Priority" :> "DN Not Found")

SweepStatuses(carrier) ==
  EligibleStatuses(carrier) \cup (IF carrier = "Priority" THEN {"DN Not Found"} ELSE {})

\* C20: a sweep polls a note only if it is submitted, its ship_via matches
\* the carrier, its posting date is inside the window and its status is null
\* or one the carrier's sweep selects; a note whose status is "Delivered" or
\* "Cancelled" is never polled and no sweep changes any of its fields
C20_SweepPollsOnlyEligible ==
  [][\A n \in DOMAIN dn : \A c \in Carriers :
       SweepStep(c) =>
         /\ InSeq(n, last'.polled) =>
              /\ dn[n].docstatus = 1
              /\ dn[n].ship_via = c
              /\ InWindow(dn[n], settings, c, clock)
              /\ dn[n].custom_tracking \in SweepStatuses(c)
         /\ dn[n].custom_tracking \in {"Delivered", "Cancelled"} =>
              /\ ~InSeq(n, last'.polled)
              /\ dn'[n] = dn[n]]_vars

C20_Witness ==
  \E n \in DOMAIN dn :
    /\ last.op = "sweep" /\ last.carrier = dn[n].ship_via
    /\ last.selected = <<>>
    /\ dn[n].custom_tracking = "Delivered"
    /\ dn[n].docstatus = 1
    /\ InWindow(dn[n], settings, dn[n].ship_via, clock)

\* the step is a poll of a note whose handler took the given path and saved
SavedPollStep(n, path) ==
  PollStep(n) /\ last'.outcome = "saved" /\ last'.path = path

\* C25: a poll that ends on the transport-error path leaves the note with a
\* status the scheduler sweep of the note's carrier selects, so the note
\* stays in scheduled polling
C25_TransportErrorStaysEligible ==
  [][\A n \in DOMAIN dn :
       (PollStep(n) /\ last'.path = "error") =>
         dn'[n].custom_tracking \in SweepStatuses(dn[n].ship_via)]_vars

\* the normalized statuses of the table rows whose raw code is the given code
StoredCodeStatuses(carrier, code) ==
  IF carrier = "UPS"
    THEN { code_details[i].jammy_description :
             i \in { j \in DOMAIN code_details :
                       cint(code_details[j].status_code) = cint(code) } }
  ELSE IF carrier = "FedEx"
    THEN { fedex_success_codes[i].jammy_description :
             i \in { j \in DOMAIN fedex_success_codes :
                       fedex_success_codes[j].fedex_status_code = code } }
  ELSE { priority_success_codes[i].jammy_description :
           i \in { j \in DOMAIN priority_success_codes :
                     priority_success_codes[j].priority_status_description = code } }

\* C27: after a poll that saved shipment data, a stored custom_tracking_code
\* that has an entry in the carrier's status-code table goes with the
\* custom_tracking of that entry
C27_StoredCodeMatchesStatus ==
  [][\A n \in DOMAIN dn :
       ( /\ SavedPollStep(n, "data")
         /\ dn'[n].custom_tracking_code # None
         /\ HasTableEntry(dn[n].ship_via, dn'[n].custom_tracking_code) ) =>
         dn'[n].custom_tracking
           \in StoredCodeStatuses(dn[n].ship_via, dn'[n].custom_tracking_code)]_vars

\* C29: with the seeded Priority tables, a Priority note whose status is
\* "DN Not Found" has a custom_incident_first_date
C29_NotFoundHasIncidentDate ==
  \A n \in DOMAIN dn :
    (dn[n].ship_via = "Priority" /\ dn[n].custom_tracking = "DN Not Found") =>
      dn[n].custom_incident_first_date # NoDate

C29_Witness ==
  \E n \in DOMAIN dn :
    /\ dn[n].ship_via = "Priority"
    /\ dn[n].custom_tracking = "DN Not Found"
    /\ last.op = "poll" /\ last.path = "error" /\ last.outcome = "saved"
    /\ clock > 0
    /\ dn[n].custom_incident_first_date = <<0>>

\* C30: a 2xx FedEx response whose first track result has no
\* latestStatusDetail saves the result's error code as custom_tracking_code
\* and the error table's status for it as custom_tracking, and leaves
\* tracking_number, custom_last_api_call and
\* custom_last_date_for_processing_status as they were, in both lookup modes
C30_FedexInbandErrorHandled ==
  [][\A n \in DOMAIN dn : \A ret \in Returns("FedEx", last'.method) :
       ( /\ dn[n].ship_via = "FedEx"
         /\ ret.error = NoError
         /\ ret.result.kind \in {"inband", "bare_result"}
         /\ PollStepWith(n, ret) ) =>
         /\ last'.outcome = "saved"
         /\ dn'[n].custom_tracking_code = ret.result.error_code
         /\ dn'[n].custom_tracking
              = DictGet(fedex_error_map(settings), ret.result.error_code)
         /\ dn'[n].tracking_number = dn[n].tracking_number
         /\ dn'[n].custom_last_api_call = dn[n].custom_last_api_call
         /\ dn'[n].custom_last_date_for_processing_status
              = dn[n].custom_last_date_for_processing_status]_vars

SeededTables == PairedTables \cup {"status_code_description"}

\* C23: a seeding operation leaves every table that has rows unchanged and
\* fills each empty table of its own, whatever the other table of the pair
\* holds; running the same operation again changes no table
C23_SeedingFillsEmptyTablesOnly ==
  [][last'.op = "seed" =>
       /\ \A t \in SeededTables :
            /\ settings[t] > 0 => settings'[t] = settings[t]
            /\ settings[t] = 0 => settings'[t] = (IF t \in last'.filled THEN 1 ELSE 0)
       /\ (last.op = "seed" /\ last.fn = last'.fn) => settings' = settings]_vars

\* the Priority function has filled the error table of a site whose success
\* table had rows, and the FedEx function the success table of a site whose
\* error table had rows
C23_Witness ==
  /\ last.op = "seed"
  /\ \/ /\ last.fn = "fillup_api_responce_code_details"
        /\ last.filled = {"error_code_details"}
        /\ settings.response_code_details = 1
        /\ settings.error_code_details = 1
     \/ /\ last.fn = "fill_status_code_details_in_parcel_service_settings"
        /\ last.filled = {"tracking_code_description"}
        /\ settings.tracking_code_description = 1
        /\ settings.error_code_description = 1

\* C24: a FedEx by-reference poll of a note whose source warehouse has no row
\* in account_number_details sends no tracking request and leaves the note's
\* status as it was
C24_MissingAccountSendsNothing ==
  [][\A n \in DOMAIN dn :
       ( /\ PollStep(n)
         /\ dn[n].ship_via = "FedEx"
         /\ last'.method = "By Reference"
         /\ AccountNumber(dn[n], settings) = None ) =>
         /\ ~last'.request_sent
         /\ dn'[n].custom_tracking = dn[n].custom_tracking]_vars

\* C26: a sweep polls every note its queries selected, once each and in the
\* order of the list, whatever the carrier returns for the other notes
C26_SweepPollsEverySelected ==
  [][\A c \in Carriers :
       SweepStep(c) => last'.polled = last'.selected]_vars

\* ==== the token cache with lifetimes, and clients constructed concurrently ====

\* ---- bounds of the token model ----
MaxTokenSteps == 3

\* the margin get_auth_token takes off the lifetime the provider reports;
\* the clock of the token model advances by this many seconds
ExpiryMargin == 300

\* expires_in of the reply of each carrier's token endpoint (seconds, as text)
ProviderExpiresIn == ("UPS" :> "900") @@ ("FedEx" :> "600")

\* two polls of one carrier, each constructing its client
Polls == {"poll-1", "poll-2"}

\* a token is told apart by the poll it was issued to and the time of issue
NoToken == [by |-> None, at |-> 0, expires_in |-> 0]

\* a key of the cache without a value
NoEntry == [value |-> NoToken, expires_at |-> 0]

NoReply == [access_token |-> NoToken, expires_in |-> "0"]

\* an entry whose lifetime has not run out still has its value
Unexpired(entry, now) == entry.value # NoToken /\ now < entry.expires_at

\* frappe.cache().get_value(key): None for a missing or expired key
get_value(entry, now) == IF Unexpired(entry, now) THEN entry.value ELSE NoToken

\* frappe.cache().set_value(key, val, expires_in_sec = ...)
set_value(val, expires_in_sec, now) == [value |-> val, expires_at |-> now + expires_in_sec]

\* TokenLifetime with a bug: the token is cached for the provider's whole lifetime
TokenLifetimeNoMargin(expires_in) == cint(expires_in)

\* expires_in_sec = cint(data.expires_in) - 300
TokenLifetime(expires_in) == cint(expires_in) - ExpiryMargin

\* a poll that has not begun to construct its client
IdleClient(carrier) ==
  [carrier |-> carrier, pc |-> "idle", access_token |-> NoToken, auth |-> None,
   reply |-> NoReply]

\* ---- __initialize_auth: self.access_token = frappe.cache().get_value(KEY);
\* ---- with a token the headers are set, without one get_auth_token is called
initialize_auth(p) ==
  /\ client[p].pc = "idle"
  /\ LET token == get_value(cache[ACCESS_TOKEN_KEY[client[p].carrier]], clock)
     IN client' = [client EXCEPT ![p] =
                     IF token # NoToken
                       THEN [@ EXCEPT !.pc = "ready", !.access_token = token,
                                      !.auth = "cached"]
                       ELSE [@ EXCEPT !.pc = "get_auth_token"]]
  /\ UNCHANGED <<dn, settings, cache, clock, last>>

\* ---- get_auth_token, requests.request: the endpoint issues a token to the
\* ---- caller, or the call raises and the except clause logs and None is
\* ---- returned (a reply without access_token also ends with None and no
\* ---- token in the cache)
RequestToken(p) ==
  /\ client[p].pc = "get_auth_token"
  /\ \/ LET expires_in == ProviderExpiresIn[client[p].carrier]
            token == [by |-> p, at |-> clock, expires_in |-> cint(expires_in)]
        IN /\ client' = [client EXCEPT ![p] =
                           [@ EXCEPT !.pc = "set_value",
                                     !.reply = [access_token |-> token,
                                                expires_in |-> expires_in]]]
           /\ last' = [last EXCEPT !.issued = @ \cup {token}]
     \/ /\ client' = [client EXCEPT ![p] = [@ EXCEPT !.pc = "ready", !.auth = "failed"]]
        /\ last' = last
  /\ UNCHANGED <<dn, settings, cache, clock>>

\* ---- get_auth_token, frappe.cache().set_value and return data.access_token
CacheToken(p) ==
  /\ client[p].pc = "set_value"
  /\ cache' = [cache EXCEPT ![ACCESS_TOKEN_KEY[client[p].carrier]] =
                 set_value(client[p].reply.access_token,
                           TokenLifetime(client[p].reply.expires_in), clock)]
  /\ client' = [client EXCEPT ![p] =
                  [@ EXCEPT !.pc = "ready",
                            !.access_token = client[p].reply.access_token,
                            !.auth = "issued", !.reply = NoReply]]
  /\ UNCHANGED <<dn, settings, clock, last>>

\* ---- the poll goes on with its headers and ends; the next poll of the
\* ---- worker constructs a new client
Finish(p) ==
  /\ client[p].pc = "ready"
  /\ client' = [client EXCEPT ![p] = IdleClient(@.carrier)]
  /\ UNCHANGED <<dn, settings, cache, clock, last>>

\* ---- time passes; a reply is cached within the step it arrived in
TimePasses ==
  /\ clock < MaxTokenSteps * ExpiryMargin
  /\ \A p \in Polls : client[p].pc # "set_value"
  /\ clock' = clock + ExpiryMargin
  /\ UNCHANGED <<dn, settings, cache, last, client>>

\* two workers poll notes of one carrier; the cache is empty
TokenInit ==
  /\ dn = [n \in {"DN-1"} |-> NewDeliveryNote("UPS", None)]
  /\ settings = SeededSettings("Int")
  /\ cache = [k \in {ACCESS_TOKEN_KEY[c] : c \in Carriers} |-> NoEntry]
  /\ clock = 0
  /\ last = [op |-> "auth", issued |-> {}]
  /\ \E c \in DOMAIN ProviderExpiresIn : client = [p \in Polls |-> IdleClient(c)]

TokenNext ==
  \/ \E p \in Polls : initialize_auth(p)
  \/ \E p \in Polls : RequestToken(p)
  \/ \E p \in Polls : CacheToken(p)
  \/ \E p \in Polls : Finish(p)
  \/ TimePasses

TokenSpec == TokenInit /\ [][TokenNext]_vars

\* the entry of the cache under the key of a poll's carrier
CacheEntry(p) == cache[ACCESS_TOKEN_KEY[client[p].carrier]]

C22_ConcurrentPollsGetIssuedTokens ==
  /\ \A p \in Polls :
       (client[p].pc = "ready" /\ \A q \in Polls : client[q].pc # "idle") =>
         /\ client[p].access_token # NoToken
         /\ client[p].access_token \in last.issued
         /\ client[p].access_token.by = p \/ client[p].auth = "cached"
  /\ \A k \in DOMAIN cache :
       cache[k].value # NoToken => cache[k].value \in last.issued
  /\ ( /\ \A p \in Polls : client[p].pc = "ready"
       /\ \E p \in Polls : client[p].auth = "issued" /\ client[p].access_token.at = clock ) =>
       \A p \in Polls : get_value(CacheEntry(p), clock) \in last.issued
====
